---- MODULE Spec2Model ----
(***************************************************************************)
(* The audio analysis engine of Pika!: audio_processing.analyze_audio_file *)
(* (the 7-metric engine) and main.analyze_audio_file (the 3-metric engine  *)
(* served by /analyze).                                                     *)
(*                                                                          *)
(* Floats are fixed-point integers counting 1/Unit, plus NaN.  librosa and  *)
(* numpy are outside the repository: what they return on a waveform (a      *)
(* statistic, NaN, or an exception) is part of the input, one field of the   *)
(* waveform record per library call.  Infinities are left out: clamp sends   *)
(* them where it sends any value beyond the scale.  round(x, 1) breaks a tie *)
(* to the even tenth of the fixed-point value; a binary float breaks it by   *)
(* its binary expansion.                                                     *)
(***************************************************************************)
EXTENDS Integers, Sequences, FiniteSets, TLC

VARIABLES
    todo,    \* per caller: the invocations still to be made, in order
    pc,      \* per caller: position inside the current invocation
    call,    \* per caller: the current invocation, [variant, file]
    y,       \* per caller: the local y (the loaded waveform)
    loc,     \* per caller: the locals bpm, energy, key, brightness, ...
    caught,  \* per caller: the estimators whose except clause ran
    result   \* per caller: the AnalysisResult returned to the caller

vars == <<todo, pc, call, y, loc, caught, result>>

Procs == {1, 2}

----------------------------------------------------------------------------
(* Bounds of the model *)

MaxDev == 2        \* fields in which an input file differs from the nominal file
MaxPathLen == 2    \* length of a path that does not exist
MaxCalls == 2      \* successive invocations made by one caller
MaxScaleNum == 4   \* amplitude factors k = n/2 for n in 3..MaxScaleNum
HistMax == 1       \* largest bin of a pitch-class histogram

----------------------------------------------------------------------------
(* Floats, Optional[float] and Optional[str] *)

Unit == 100 * 100

F(n) == [k |-> "num", v |-> n]
NaN == [k |-> "nan", v |-> 0]
Raise == [k |-> "raise", v |-> 0]
None == [k |-> "none", v |-> 0]

S(s) == [k |-> "str", s |-> s]
NoneS == [k |-> "none", s |-> <<>>]

\* Python's a < b and a > b on floats: False as soon as one side is NaN
lt(a, b) == a.k = "num" /\ b.k = "num" /\ a.v < b.v
gt(a, b) == lt(b, a)

\* Python's min(a, b) and max(a, b): the first argument unless the second beats it
py_min(a, b) == IF lt(b, a) THEN b ELSE a
py_max(a, b) == IF gt(b, a) THEN b ELSE a

mul(a, c) == IF a.k = "num" THEN F(a.v * c) ELSE a
div(a, c) == IF a.k = "num" THEN F(a.v \div c) ELSE a
sub(a, b) == IF a.k = "num" /\ b.k = "num" THEN F(a.v - b.v) ELSE NaN
fdiv(a, b) ==
    IF a.k = "num" /\ b.k = "num" THEN F((a.v * Unit) \div b.v) ELSE NaN

Tenth == Unit \div 10

\* round(x, 1)
round1(a) ==
    IF a.k # "num" THEN a
    ELSE LET q == a.v \div Tenth
             r == a.v % Tenth
         IN  IF 2 * r < Tenth THEN F(q * Tenth)
             ELSE IF 2 * r > Tenth THEN F((q + 1) * Tenth)
             ELSE IF q % 2 = 0 THEN F(q * Tenth)
             ELSE F((q + 1) * Tenth)

----------------------------------------------------------------------------
(* audio_processing.py *)

MAX_DURATION == 60

KEY_NAMES == <<"C", "C#", "D", "D#", "E", "F", "F#", "G", "G#", "A", "A#", "B">>

HUNDRED == F(100 * Unit)
ZERO == F(0)

\* the mutants of clamp: no lower bound; wrap around instead of saturating
clamp_no_floor(value, min_val, max_val) == py_min(max_val, value)
clamp_wrap(value, min_val, max_val) ==
    IF value.k = "num" THEN F(value.v % (max_val.v + 1)) ELSE max_val

clamp(value, min_val, max_val) == py_max(min_val, py_min(max_val, value))

\* np.argmax over a 12-vector: a left-to-right scan that moves only on a
\* strictly greater bin.  Indices are 0-based as in the code; h is 1-based.
RECURSIVE argmax_scan(_, _, _)
argmax_scan(h, i, best) ==
    IF i >= Len(h) THEN best
    ELSE argmax_scan(h, i + 1, IF h[i + 1] > h[best + 1] THEN i ELSE best)

RECURSIVE argmax_scan_last(_, _, _)
argmax_scan_last(h, i, best) ==
    IF i >= Len(h) THEN best
    ELSE argmax_scan_last(h, i + 1, IF h[i + 1] >= h[best + 1] THEN i ELSE best)

np_argmax(h) == argmax_scan(h, 1, 0)

\* the mutant of estimate_key: the last maximal bin is taken
estimate_key_last(w) ==
    IF w.chroma.k = "raise" THEN <<"Unknown">>
    ELSE LET pitch_class == w.chroma.h
             key_idx == argmax_scan_last(pitch_class, 1, 0)
             major_third_idx == (key_idx + 4) % 12
             minor_third_idx == (key_idx + 3) % 12
             mode == IF pitch_class[minor_third_idx + 1] > pitch_class[major_third_idx + 1]
                     THEN <<"m">> ELSE <<>>
         IN  <<KEY_NAMES[key_idx + 1]>> \o mode

\* a key is the token sequence the f-string concatenates: the name, then the mode
estimate_key(w) ==
    IF w.chroma.k = "raise" THEN <<"Unknown">>
    ELSE LET pitch_class == w.chroma.h
             key_idx == np_argmax(pitch_class)
             major_third_idx == (key_idx + 4) % 12
             minor_third_idx == (key_idx + 3) % 12
             mode == IF pitch_class[minor_third_idx + 1] > pitch_class[major_third_idx + 1]
                     THEN <<"m">> ELSE <<>>
         IN  <<KEY_NAMES[key_idx + 1]>> \o mode

calculate_brightness(w) ==
    IF w.centroid.k = "raise" THEN ZERO
    ELSE clamp(mul(div(w.centroid, 4000), 100), ZERO, HUNDRED)

calculate_acousticness(w) ==
    IF w.flatness.k = "raise" THEN ZERO
    ELSE clamp(mul(sub(F(Unit), w.flatness), 100), ZERO, HUNDRED)

\* onset_strength, then tempogram, then the peak-to-mean ratio of tempo_strength
calculate_danceability(w) ==
    IF w.onset.k = "raise" \/ w.tempo.k = "raise" THEN ZERO
    ELSE IF gt(w.tempo.mean, ZERO)
         THEN clamp(mul(fdiv(w.tempo.max, w.tempo.mean), 15), ZERO, HUNDRED)
         ELSE F(50 * Unit)

calculate_groove(w) ==
    IF w.onset.k = "raise" THEN ZERO
    ELSE clamp(mul(w.onset, 25), ZERO, HUNDRED)

calculate_energy(w) ==
    IF w.rms.k = "raise" THEN ZERO
    ELSE clamp(mul(w.rms, 500), ZERO, HUNDRED)

calculate_bpm(w) ==
    IF w.beat.k = "raise" THEN ZERO ELSE w.beat

\* AnalysisResult(...) of audio_processing.py: a field not given is None
AnalysisResult(bpm, energy, key, danceability, brightness, acousticness, groove, error) ==
    [bpm |-> bpm, energy |-> energy, key |-> key, danceability |-> danceability,
     brightness |-> brightness, acousticness |-> acousticness, groove |-> groove,
     error |-> error]

ErrorResult(msg) == AnalysisResult(None, None, NoneS, None, None, None, None, S(msg))

\* the strings of the code, as token sequences; a path is a sequence of characters
FILE_NOT_FOUND == <<"F", "i", "l", "e", " ", "n", "o", "t", " ", "f", "o", "u", "n", "d", ":", " ">>
SILENT == <<"Audio file appears to be silent">>
EMPTY_MAX == <<"zero-size array to reduction operation maximum which has no identity">>

\* the mutant of is_silent: the threshold is 0.001
is_silent_small(w) == lt(w.peak, F(Unit \div 1000))

\* np.max(np.abs(y)) < 0.01
SilenceThreshold == F(Unit \div 100)
is_silent(w) == lt(w.peak, SilenceThreshold)

----------------------------------------------------------------------------
(* main.py *)

MAIN_DURATION == 30

MainResult(bpm, energy, key, error) ==
    [bpm |-> bpm, energy |-> energy, key |-> key, error |-> error]

MainErrorResult(msg) == MainResult(None, None, NoneS, S(msg))

main_estimate_key(w) ==
    IF w.chroma.k = "raise" THEN <<"Unknown">>
    ELSE <<KEY_NAMES[np_argmax(w.chroma.h) + 1]>>

\* the mutant of main_energy: another calibration constant
main_energy_100(w) == py_min(HUNDRED, mul(w.rms, 100))

\* energy = min(100.0, float(np.mean(rms)) * 500)
main_energy(w) == py_min(HUNDRED, mul(w.rms, 500))

----------------------------------------------------------------------------
(* The inputs: a file is its path, whether the path exists, whether it      *)
(* decodes, and the waveform librosa.load returns for a duration of 60 s    *)
(* (wave60) and of 30 s (wave30); the two differ only when the file is      *)
(* longer than 30 s.  A waveform is what each library call returns on it.   *)

Vec(h) == [k |-> "vec", h |-> h]
RaiseVec == [k |-> "raise", h |-> <<>>]
Tempo(mx, mn) == [k |-> "ok", max |-> mx, mean |-> mn]
RaiseTempo == [k |-> "raise", max |-> NaN, mean |-> NaN]
Decoded == [k |-> "ok", s |-> <<>>]
DecodeError(msg) == [k |-> "raise", s |-> msg]

NominalWave ==
    [peak |-> F(5000), beat |-> F(1200400), rms |-> F(1234),
     chroma |-> Vec(<<2, 0, 0, 0, 1, 0, 0, 0, 0, 5, 0, 0>>),
     centroid |-> F(20005000), flatness |-> F(123),
     tempo |-> Tempo(F(3 * Unit), F(Unit)), onset |-> F(12340)]

NominalFile ==
    [path |-> <<"a">>, exists |-> TRUE, decode |-> Decoded,
     wave60 |-> NominalWave, wave30 |-> NominalWave]

PeakVals == {F(0), F(99), F(100), NaN, Raise}
BeatVals == {Raise, F(1234500)}
RmsVals == {Raise, NaN, F(0 - 2), F(3), F(2500)}
ChromaVals == {RaiseVec, Vec(<<3, 0, 0, 0, 3, 0, 0, 3, 0, 0, 0, 0>>)}
CentroidVals == {Raise, F(0 - Unit), F(6000 * Unit)}
FlatnessVals == {Raise, F(2 * Unit)}
TempoVals == {RaiseTempo, Tempo(F(0), F(0)), Tempo(F(9 * Unit), F(Unit))}
OnsetVals == {Raise, F(0 - Unit), F(5 * Unit)}
DecodeVals == {DecodeError(<<>>), DecodeError(<<"NoBackendError">>)}

\* the files that differ from f in one respect
FileDeviate(f) ==
    {[f EXCEPT !.decode = d] : d \in DecodeVals}
    \cup {[f EXCEPT !.wave60.peak = v, !.wave30.peak = v] : v \in PeakVals}
    \cup {[f EXCEPT !.wave60.beat = v, !.wave30.beat = v] : v \in BeatVals}
    \cup {[f EXCEPT !.wave60.rms = v, !.wave30.rms = v] : v \in RmsVals}
    \cup {[f EXCEPT !.wave60.chroma = v, !.wave30.chroma = v] : v \in ChromaVals}
    \cup {[f EXCEPT !.wave60.centroid = v, !.wave30.centroid = v] : v \in CentroidVals}
    \cup {[f EXCEPT !.wave60.flatness = v, !.wave30.flatness = v] : v \in FlatnessVals}
    \cup {[f EXCEPT !.wave60.tempo = v, !.wave30.tempo = v] : v \in TempoVals}
    \cup {[f EXCEPT !.wave60.onset = v, !.wave30.onset = v] : v \in OnsetVals}
    \* a file longer than 30 s: main.py's 30 s differ in what main.py reads
    \cup {[f EXCEPT !.wave30.beat = v] : v \in BeatVals}
    \cup {[f EXCEPT !.wave30.rms = v] : v \in RmsVals}
    \cup {[f EXCEPT !.wave30.chroma = v] : v \in ChromaVals}

RECURSIVE DevFiles(_, _)
DevFiles(f, n) ==
    IF n = 0 THEN {f}
    ELSE LET prev == DevFiles(f, n - 1)
         IN  prev \cup UNION {FileDeviate(x) : x \in prev}

ExistingFiles == DevFiles(NominalFile, MaxDev)

PathChars == {"a", "/"}
Paths == UNION {[1..n -> PathChars] : n \in 0..MaxPathLen}
MissingFiles == {[NominalFile EXCEPT !.path = s, !.exists = FALSE] : s \in Paths}

Files == ExistingFiles \cup MissingFiles

Variants == {"audio_processing", "main"}
Calls == [variant : Variants, file : Files]

os_path_exists(f) == f.exists

\* librosa.load(file_path, duration=duration, sr=22050) on a file that decodes
librosa_load(f, duration) == IF duration > MAIN_DURATION THEN f.wave60 ELSE f.wave30

----------------------------------------------------------------------------
(* The state of one invocation *)

NoCall == [variant |-> "none", file |-> NominalFile]
NoWave == [k |-> "unbound"]
NoLocals ==
    [bpm |-> None, energy |-> None, key |-> <<>>, brightness |-> None,
     acousticness |-> None, danceability |-> None, groove |-> None]
NoResult == [k |-> "not returned"]

Terminal == {"Done", "Failed"}

InitWith(td) ==
    /\ todo = td
    /\ pc = [p \in Procs |-> "Idle"]
    /\ call = [p \in Procs |-> NoCall]
    /\ y = [p \in Procs |-> NoWave]
    /\ loc = [p \in Procs |-> NoLocals]
    /\ caught = [p \in Procs |-> {}]
    /\ result = [p \in Procs |-> NoResult]

\* one caller, one invocation of either engine on any file
Init == \E c \in Calls : InitWith([p \in Procs |-> IF p = 1 THEN <<c>> ELSE <<>>])

\* the caller calls analyze_audio_file(file_path): a fresh frame
Invoke(p) ==
    /\ pc[p] \in {"Idle"} \cup Terminal
    /\ todo[p] # <<>>
    /\ call' = [call EXCEPT ![p] = Head(todo[p])]
    /\ todo' = [todo EXCEPT ![p] = Tail(todo[p])]
    /\ pc' = [pc EXCEPT ![p] = "Start"]
    /\ y' = [y EXCEPT ![p] = NoWave]
    /\ loc' = [loc EXCEPT ![p] = NoLocals]
    /\ caught' = [caught EXCEPT ![p] = {}]
    /\ result' = [result EXCEPT ![p] = NoResult]

At(p, variant, where) == call[p].variant = variant /\ pc[p] = where

Goto(p, where) == pc' = [pc EXCEPT ![p] = where]

Return(p, r, where) ==
    /\ result' = [result EXCEPT ![p] = r]
    /\ pc' = [pc EXCEPT ![p] = where]

----------------------------------------------------------------------------
(* audio_processing.analyze_audio_file, one action per statement *)

RECURSIVE basename(_)
basename(path) ==
    IF path = <<>> \/ path[Len(path)] = "/" THEN <<>>
    ELSE basename(SubSeq(path, 1, Len(path) - 1)) \o <<path[Len(path)]>>

\* the mutant of not_found_message: only the file's name is reported
not_found_message_basename(file_path) == FILE_NOT_FOUND \o basename(file_path)

\* f"File not found: {file_path}"
not_found_message(file_path) == FILE_NOT_FOUND \o file_path

\* the mutant of ExceptHandler: the error is attached to a zeroed result
ExceptHandler_zeroed(p, msg) ==
    Return(p, [ErrorResult(msg) EXCEPT !.bpm = ZERO, !.energy = ZERO], "Failed")

\* except Exception as e: return AnalysisResult(error=str(e))
ExceptHandler(p, msg) == Return(p, ErrorResult(msg), "Failed")

\* if not os.path.exists(file_path): return AnalysisResult(error=...)
CheckPath(p) ==
    /\ At(p, "audio_processing", "Start")
    /\ IF os_path_exists(call[p].file)
       THEN Goto(p, "Loaded") /\ UNCHANGED result
       ELSE Return(p, ErrorResult(not_found_message(call[p].file.path)), "Failed")
    /\ UNCHANGED <<todo, call, y, loc, caught>>

\* the mutant of LoadAudio: the load is outside the try, its exception escapes
LoadAudio_outside_try(p) ==
    /\ At(p, "audio_processing", "Loaded")
    /\ IF call[p].file.decode.k = "raise"
       THEN Goto(p, "Raised") /\ UNCHANGED <<y, result>>
       ELSE /\ y' = [y EXCEPT ![p] = librosa_load(call[p].file, MAX_DURATION)]
            /\ Goto(p, "SilenceCheck")
            /\ UNCHANGED result
    /\ UNCHANGED <<todo, call, loc, caught>>

\* y, sr = librosa.load(file_path, duration=MAX_DURATION, sr=SAMPLE_RATE)
LoadAudio(p) ==
    /\ At(p, "audio_processing", "Loaded")
    /\ IF call[p].file.decode.k = "raise"
       THEN ExceptHandler(p, call[p].file.decode.s) /\ UNCHANGED y
       ELSE /\ y' = [y EXCEPT ![p] = librosa_load(call[p].file, MAX_DURATION)]
            /\ Goto(p, "SilenceCheck")
            /\ UNCHANGED result
    /\ UNCHANGED <<todo, call, loc, caught>>

\* if np.max(np.abs(y)) < 0.01: return AnalysisResult(error="Audio file ...")
SilenceCheck(p) ==
    /\ At(p, "audio_processing", "SilenceCheck")
    /\ IF y[p].peak.k = "raise" THEN ExceptHandler(p, EMPTY_MAX)
       ELSE IF is_silent(y[p]) THEN Return(p, ErrorResult(SILENT), "Failed")
       ELSE Goto(p, "bpm") /\ UNCHANGED result
    /\ UNCHANGED <<todo, call, y, loc, caught>>

\* the library call of each estimator raised, and its except clause ran
Fails(name, w) ==
    CASE name = "calculate_bpm" -> w.beat.k = "raise"
      [] name = "calculate_energy" -> w.rms.k = "raise"
      [] name = "estimate_key" -> w.chroma.k = "raise"
      [] name = "calculate_brightness" -> w.centroid.k = "raise"
      [] name = "calculate_acousticness" -> w.flatness.k = "raise"
      [] name = "calculate_danceability" -> w.onset.k = "raise" \/ w.tempo.k = "raise"
      [] name = "calculate_groove" -> w.onset.k = "raise"

Catch(p, name) ==
    caught' = [caught EXCEPT ![p] = IF Fails(name, y[p]) THEN @ \cup {name} ELSE @]

\* the mutant of CalculateBpm: the estimator has no try, its failure reaches
\* the handler of analyze_audio_file
CalculateBpm_propagate(p) ==
    /\ At(p, "audio_processing", "bpm")
    /\ IF Fails("calculate_bpm", y[p])
       THEN ExceptHandler(p, <<"beat_track failed">>) /\ UNCHANGED loc
       ELSE /\ loc' = [loc EXCEPT ![p].bpm = calculate_bpm(y[p])]
            /\ Goto(p, "energy")
            /\ UNCHANGED result
    /\ Catch(p, "calculate_bpm")
    /\ UNCHANGED <<todo, call, y>>

\* bpm = calculate_bpm(y, sr)
CalculateBpm(p) ==
    /\ At(p, "audio_processing", "bpm")
    /\ loc' = [loc EXCEPT ![p].bpm = calculate_bpm(y[p])]
    /\ Catch(p, "calculate_bpm")
    /\ Goto(p, "energy")
    /\ UNCHANGED <<todo, call, y, result>>

\* the mutant of CalculateEnergy: energy is a module-level variable
CalculateEnergy_shared(p) ==
    /\ At(p, "audio_processing", "energy")
    /\ loc' = [q \in Procs |-> [loc[q] EXCEPT !.energy = calculate_energy(y[p])]]
    /\ Catch(p, "calculate_energy")
    /\ Goto(p, "key")
    /\ UNCHANGED <<todo, call, y, result>>

\* energy = calculate_energy(y)
CalculateEnergy(p) ==
    /\ At(p, "audio_processing", "energy")
    /\ loc' = [loc EXCEPT ![p].energy = calculate_energy(y[p])]
    /\ Catch(p, "calculate_energy")
    /\ Goto(p, "key")
    /\ UNCHANGED <<todo, call, y, result>>

\* key = estimate_key(y, sr)
EstimateKey(p) ==
    /\ At(p, "audio_processing", "key")
    /\ loc' = [loc EXCEPT ![p].key = estimate_key(y[p])]
    /\ Catch(p, "estimate_key")
    /\ Goto(p, "brightness")
    /\ UNCHANGED <<todo, call, y, result>>

\* brightness = calculate_brightness(y, sr)
CalculateBrightness(p) ==
    /\ At(p, "audio_processing", "brightness")
    /\ loc' = [loc EXCEPT ![p].brightness = calculate_brightness(y[p])]
    /\ Catch(p, "calculate_brightness")
    /\ Goto(p, "acousticness")
    /\ UNCHANGED <<todo, call, y, result>>

\* acousticness = calculate_acousticness(y, sr)
CalculateAcousticness(p) ==
    /\ At(p, "audio_processing", "acousticness")
    /\ loc' = [loc EXCEPT ![p].acousticness = calculate_acousticness(y[p])]
    /\ Catch(p, "calculate_acousticness")
    /\ Goto(p, "danceability")
    /\ UNCHANGED <<todo, call, y, result>>

\* danceability = calculate_danceability(y, sr)
CalculateDanceability(p) ==
    /\ At(p, "audio_processing", "danceability")
    /\ loc' = [loc EXCEPT ![p].danceability = calculate_danceability(y[p])]
    /\ Catch(p, "calculate_danceability")
    /\ Goto(p, "groove")
    /\ UNCHANGED <<todo, call, y, result>>

\* groove = calculate_groove(y, sr)
CalculateGroove(p) ==
    /\ At(p, "audio_processing", "groove")
    /\ loc' = [loc EXCEPT ![p].groove = calculate_groove(y[p])]
    /\ Catch(p, "calculate_groove")
    /\ Goto(p, "assemble")
    /\ UNCHANGED <<todo, call, y, result>>

\* return AnalysisResult(bpm=round(bpm, 1), ..., groove=round(groove, 1))
Assemble(p) ==
    /\ At(p, "audio_processing", "assemble")
    /\ Return(p, AnalysisResult(round1(loc[p].bpm), round1(loc[p].energy),
                                S(loc[p].key), round1(loc[p].danceability),
                                round1(loc[p].brightness),
                                round1(loc[p].acousticness),
                                round1(loc[p].groove), NoneS), "Done")
    /\ UNCHANGED <<todo, call, y, loc, caught>>

----------------------------------------------------------------------------
(* main.analyze_audio_file, one action per statement *)

BEAT_ERROR == <<"beat_track failed">>
RMS_ERROR == <<"rms failed">>

MainExceptHandler(p, msg) == Return(p, MainErrorResult(msg), "Failed")

MainCheckPath(p) ==
    /\ At(p, "main", "Start")
    /\ IF os_path_exists(call[p].file)
       THEN Goto(p, "Loaded") /\ UNCHANGED result
       ELSE Return(p, MainErrorResult(not_found_message(call[p].file.path)), "Failed")
    /\ UNCHANGED <<todo, call, y, loc, caught>>

\* y, sr = librosa.load(file_path, duration=30, sr=22050)
MainLoad(p) ==
    /\ At(p, "main", "Loaded")
    /\ IF call[p].file.decode.k = "raise"
       THEN MainExceptHandler(p, call[p].file.decode.s) /\ UNCHANGED y
       ELSE /\ y' = [y EXCEPT ![p] = librosa_load(call[p].file, MAIN_DURATION)]
            /\ Goto(p, "bpm")
            /\ UNCHANGED result
    /\ UNCHANGED <<todo, call, loc, caught>>

\* tempo, _ = librosa.beat.beat_track(y=y, sr=sr); bpm = float(tempo) ...
MainBeatTrack(p) ==
    /\ At(p, "main", "bpm")
    /\ IF y[p].beat.k = "raise"
       THEN MainExceptHandler(p, BEAT_ERROR) /\ UNCHANGED loc
       ELSE /\ loc' = [loc EXCEPT ![p].bpm = y[p].beat]
            /\ Goto(p, "energy")
            /\ UNCHANGED result
    /\ UNCHANGED <<todo, call, y, caught>>

\* rms = librosa.feature.rms(y=y); energy = min(100.0, float(np.mean(rms)) * 500)
MainEnergy(p) ==
    /\ At(p, "main", "energy")
    /\ IF y[p].rms.k = "raise"
       THEN MainExceptHandler(p, RMS_ERROR) /\ UNCHANGED loc
       ELSE /\ loc' = [loc EXCEPT ![p].energy = main_energy(y[p])]
            /\ Goto(p, "key")
            /\ UNCHANGED result
    /\ UNCHANGED <<todo, call, y, caught>>

\* key = estimate_key(y, sr)
MainEstimateKey(p) ==
    /\ At(p, "main", "key")
    /\ loc' = [loc EXCEPT ![p].key = main_estimate_key(y[p])]
    /\ caught' = [caught EXCEPT ![p] =
                    IF y[p].chroma.k = "raise" THEN @ \cup {"estimate_key"} ELSE @]
    /\ Goto(p, "assemble")
    /\ UNCHANGED <<todo, call, y, result>>

\* return AnalysisResult(bpm=round(bpm, 1), energy=round(energy, 1), key=key)
MainAssemble(p) ==
    /\ At(p, "main", "assemble")
    /\ Return(p, MainResult(round1(loc[p].bpm), round1(loc[p].energy),
                            S(loc[p].key), NoneS), "Done")
    /\ UNCHANGED <<todo, call, y, loc, caught>>

----------------------------------------------------------------------------
(* The specifications *)

Step(p) ==
    \/ CheckPath(p)
    \/ LoadAudio(p)
    \/ SilenceCheck(p)
    \/ CalculateBpm(p)
    \/ CalculateEnergy(p)
    \/ EstimateKey(p)
    \/ CalculateBrightness(p)
    \/ CalculateAcousticness(p)
    \/ CalculateDanceability(p)
    \/ CalculateGroove(p)
    \/ Assemble(p)
    \/ MainCheckPath(p)
    \/ MainLoad(p)
    \/ MainBeatTrack(p)
    \/ MainEnergy(p)
    \/ MainEstimateKey(p)
    \/ MainAssemble(p)

Next == \E p \in Procs : Invoke(p) \/ Step(p)

Spec == Init /\ [][Next]_vars

\* audio_processing.estimate_key on every histogram with bins in 0..HistMax:
\* the invocation stands at key = estimate_key(y, sr)
KeyWave(h) == [NominalWave EXCEPT !.chroma = Vec(h)]
KeyFile(h) == [NominalFile EXCEPT !.wave60 = KeyWave(h), !.wave30 = KeyWave(h)]

InitKey ==
    \E h \in [1..Len(KEY_NAMES) -> 0..HistMax] :
        /\ todo = [p \in Procs |-> <<>>]
        /\ pc = [p \in Procs |-> IF p = 1 THEN "key" ELSE "Idle"]
        /\ call = [p \in Procs |->
                     IF p = 1 THEN [variant |-> "audio_processing", file |-> KeyFile(h)]
                     ELSE NoCall]
        /\ y = [p \in Procs |-> IF p = 1 THEN KeyWave(h) ELSE NoWave]
        /\ loc = [p \in Procs |->
                    IF p = 1
                    THEN [NoLocals EXCEPT !.bpm = calculate_bpm(KeyWave(h)),
                                          !.energy = calculate_energy(KeyWave(h))]
                    ELSE NoLocals]
        /\ caught = [p \in Procs |-> {}]
        /\ result = [p \in Procs |-> NoResult]

NextKey == \E p \in Procs : EstimateKey(p)

SpecKey == InitKey /\ [][NextKey]_vars

\* both engines on the same file
InitVariants ==
    \E f \in Files :
        InitWith([p \in Procs |->
                    <<[variant |-> IF p = 1 THEN "audio_processing" ELSE "main",
                       file |-> f]>>])

SpecVariants == InitVariants /\ [][Next]_vars

\* a waveform and the same waveform with every sample multiplied by n/2:
\* its peak and its RMS are multiplied by n/2, and a library call that
\* raises on the one raises on the other
ScaleF(v, n) == IF v.k = "num" THEN F((v.v * n) \div 2) ELSE v
ScaleWave(w, n) == [w EXCEPT !.peak = ScaleF(@, n), !.rms = ScaleF(@, n)]
Scale(f, n) ==
    [f EXCEPT !.wave60 = ScaleWave(@, n), !.wave30 = ScaleWave(@, n)]

\* no sample of the scaled waveform leaves [-1, 1]
NoClip(f, n) == f.wave60.peak.k = "num" => ScaleF(f.wave60.peak, n).v <= Unit

ScaleNums == 3..MaxScaleNum

EnergyPeaks == {F(0), F(60), F(99), F(100), F(5000), NaN, Raise}
EnergyRms ==
    {Raise, NaN, F(0 - 2), F(0), F(1), F(3), F(7), F(1234), F(1500), F(1999),
     F(2000), F(2500)}
EnergyFiles ==
    {[NominalFile EXCEPT !.wave60.peak = pk, !.wave30.peak = pk,
                         !.wave60.rms = r, !.wave30.rms = r] :
        pk \in EnergyPeaks, r \in EnergyRms}

InitEnergy ==
    \E v \in Variants, f \in EnergyFiles, n \in ScaleNums :
        /\ NoClip(f, n)
        /\ InitWith([p \in Procs |->
                       <<[variant |-> v, file |-> IF p = 1 THEN f ELSE Scale(f, n)]>>])

SpecEnergy == InitEnergy /\ [][Next]_vars

\* two concurrent callers: the first makes MaxCalls invocations in a row,
\* the second makes one
LoudFile ==
    [NominalFile EXCEPT
        !.wave60 = [@ EXCEPT !.rms = F(2500), !.beat = F(1234500),
                             !.chroma = Vec(<<3, 0, 0, 0, 3, 0, 0, 3, 0, 0, 0, 0>>),
                             !.onset = Raise],
        !.wave30 = [@ EXCEPT !.rms = F(3), !.beat = F(1234500)]]
QuietFile ==
    [NominalFile EXCEPT !.wave60.peak = F(99), !.wave30.peak = F(99),
                        !.wave60.rms = F(1), !.wave30.rms = F(1)]
ConcFiles == {NominalFile, LoudFile, QuietFile}
ConcCalls == [variant : Variants, file : ConcFiles]

InitConc ==
    \E s \in [1..MaxCalls -> ConcCalls], c \in ConcCalls :
        InitWith([p \in Procs |-> IF p = 1 THEN s ELSE <<c>>])

SpecConc == InitConc /\ [][Next]_vars

----------------------------------------------------------------------------
(* What the claims speak of *)

Rich(p) == call[p].variant = "audio_processing"
Minimal(p) == call[p].variant = "main"
Returned(p) == pc[p] \in Terminal

CoreAbsent(r) == r.bpm = None /\ r.energy = None /\ r.key = NoneS
CorePresent(r) == r.bpm # None /\ r.energy # None /\ r.key # NoneS
FingerprintAbsent(r) ==
    /\ r.danceability = None
    /\ r.brightness = None
    /\ r.acousticness = None
    /\ r.groove = None
FingerprintPresent(r) ==
    /\ r.danceability # None
    /\ r.brightness # None
    /\ r.acousticness # None
    /\ r.groove # None
MetricsAbsent(r) == CoreAbsent(r) /\ FingerprintAbsent(r)
MetricsPresent(r) == CorePresent(r) /\ FingerprintPresent(r)

InScale(v) == v.k = "num" /\ 0 <= v.v /\ v.v <= 100 * Unit

Contains(s, t) ==
    \E i \in 0..(Len(s) - Len(t)) : SubSeq(s, i + 1, i + Len(t)) = t

\* the file exists, decodes, and its waveform has a peak below 0.01
SilentFile(f) ==
    /\ f.exists
    /\ f.decode.k = "ok"
    /\ f.wave60.peak.k = "num"
    /\ 100 * f.wave60.peak.v < Unit

----------------------------------------------------------------------------
\* C1: every result audio_processing.analyze_audio_file returns has either
\* error set and all seven metric fields absent, or error absent and all
\* seven metric fields present.
C1_ResultShape ==
    \A p \in Procs :
        (Rich(p) /\ Returned(p)) =>
            \/ result[p].error # NoneS /\ MetricsAbsent(result[p])
            \/ result[p].error = NoneS /\ MetricsPresent(result[p])

\* an exception with an empty message went through the handler
C1_Witness ==
    \E p \in Procs :
        /\ Rich(p)
        /\ pc[p] = "Failed"
        /\ call[p].file.decode.k = "raise"
        /\ result[p].error = S(<<>>)

\* C2, as claimed: an invocation in which an estimator failed internally
\* returns only the error, with every metric field absent.
C2_AllOrNothing ==
    \A p \in Procs :
        (Rich(p) /\ Returned(p) /\ caught[p] # {}) =>
            result[p].error # NoneS /\ MetricsAbsent(result[p])

\* C2, amended: an estimator's internal failure never fails the invocation;
\* the result has no error and all seven metrics, and the field of each
\* failed estimator holds its fallback (0.0, or "Unknown" for the key).
C2_FallbackNotFailure ==
    \A p \in Procs :
        (Rich(p) /\ Returned(p) /\ caught[p] # {}) =>
            /\ pc[p] = "Done"
            /\ result[p].error = NoneS
            /\ MetricsPresent(result[p])
            /\ "calculate_bpm" \in caught[p] => result[p].bpm = ZERO
            /\ "calculate_energy" \in caught[p] => result[p].energy = ZERO
            /\ "estimate_key" \in caught[p] => result[p].key = S(<<"Unknown">>)
            /\ "calculate_brightness" \in caught[p] => result[p].brightness = ZERO
            /\ "calculate_acousticness" \in caught[p] => result[p].acousticness = ZERO
            /\ "calculate_danceability" \in caught[p] => result[p].danceability = ZERO
            /\ "calculate_groove" \in caught[p] => result[p].groove = ZERO

C2_Witness ==
    \E p \in Procs :
        /\ Rich(p)
        /\ Returned(p)
        /\ {"calculate_bpm", "estimate_key"} \subseteq caught[p]

\* C3: in every successful result of audio_processing.analyze_audio_file,
\* danceability, brightness, acousticness, groove and energy lie in [0, 100].
C3_InScale ==
    \A p \in Procs :
        (Rich(p) /\ pc[p] = "Done") =>
            /\ InScale(result[p].danceability)
            /\ InScale(result[p].brightness)
            /\ InScale(result[p].acousticness)
            /\ InScale(result[p].groove)
            /\ InScale(result[p].energy)

\* a negative statistic and one above the scale met in one result
C3_Witness ==
    \E p \in Procs :
        /\ Rich(p)
        /\ pc[p] = "Done"
        /\ y[p].centroid = F(0 - Unit)
        /\ y[p].rms = F(2500)
        /\ result[p].brightness = ZERO
        /\ result[p].energy = HUNDRED

\* C4: on an existing file whose waveform peaks below 0.01 no estimator
\* runs, and the result is exactly the silence error with no metrics.
C4_Silence ==
    \A p \in Procs :
        (Rich(p) /\ SilentFile(call[p].file)) =>
            /\ pc[p] \in {"Start", "Loaded", "SilenceCheck", "Failed"}
            /\ loc[p] = NoLocals
            /\ caught[p] = {}
            /\ Returned(p) => result[p] = ErrorResult(SILENT)

C4_Witness ==
    \E p \in Procs :
        /\ Rich(p)
        /\ pc[p] = "Failed"
        /\ call[p].file.decode.k = "ok"
        /\ call[p].file.exists
        /\ call[p].file.wave60.peak = F(99)

\* C5: for a path that does not exist, either engine returns an error that
\* contains the path and no metrics, and loads and analyzes nothing.
C5_MissingFile ==
    \A p \in Procs :
        ((Rich(p) \/ Minimal(p)) /\ ~call[p].file.exists) =>
            /\ pc[p] \in {"Start", "Failed"}
            /\ y[p] = NoWave
            /\ loc[p] = NoLocals
            /\ Returned(p) =>
                /\ result[p].error.k = "str"
                /\ Contains(result[p].error.s, call[p].file.path)
                /\ CoreAbsent(result[p])
                /\ Rich(p) => FingerprintAbsent(result[p])

C5_Witness ==
    \E p \in Procs :
        /\ Rich(p)
        /\ pc[p] = "Failed"
        /\ ~call[p].file.exists
        /\ call[p].file.path = <<"/", "a">>

\* C7: an invocation of audio_processing.analyze_audio_file goes through
\* Start, Loaded, SilenceCheck, Analyzed in that order, leaves to Failed from
\* any of them, ends in Done or Failed with a result returned, can always
\* take its next step until then, and never leaves by raising.
Analyzed ==
    {"bpm", "energy", "key", "brightness", "acousticness", "danceability",
     "groove", "assemble"}

Rank(where) ==
    CASE where = "Start" -> 1
      [] where = "Loaded" -> 2
      [] where = "SilenceCheck" -> 3
      [] where = "bpm" -> 4
      [] where = "energy" -> 5
      [] where = "key" -> 6
      [] where = "brightness" -> 7
      [] where = "acousticness" -> 8
      [] where = "danceability" -> 9
      [] where = "groove" -> 10
      [] where = "assemble" -> 11
      [] where = "Done" -> 12
      [] OTHER -> 0

InOrder(p) ==
    IF pc[p] \in {"Idle"} \cup Terminal THEN pc'[p] = "Start"
    ELSE \/ pc'[p] = "Failed" /\ result'[p] # NoResult
         \/ Rank(pc'[p]) = Rank(pc[p]) + 1 /\ (pc'[p] = "Done" => result'[p] # NoResult)

C7_StateMachine ==
    /\ [][\A p \in Procs :
            (call'[p].variant = "audio_processing" /\ pc'[p] # pc[p]) => InOrder(p)]_vars
    /\ [](\A p \in Procs :
            Rich(p) =>
                /\ pc[p] \in {"Start", "Loaded", "SilenceCheck"} \cup Analyzed \cup Terminal
                /\ ~Returned(p) => ENABLED Step(p))

C7_Witness ==
    \E p \in Procs :
        /\ Rich(p)
        /\ pc[p] = "Done"
        /\ result[p].error = NoneS
        /\ caught[p] = {}

----------------------------------------------------------------------------
\* C6: estimate_key returns the name of the lowest-index bin holding the
\* maximum of the histogram, followed by "m" exactly when the bin three
\* above it (mod 12) is strictly greater than the bin four above it.
KeyOf(h) ==
    LET top == CHOOSE m \in {h[i] : i \in 1..12} : \A i \in 1..12 : h[i] <= m
        k == CHOOSE i \in 0..11 : h[i + 1] = top /\ \A j \in 0..(i - 1) : h[j + 1] # top
        minor == h[((k + 3) % 12) + 1] > h[((k + 4) % 12) + 1]
    IN  IF minor THEN <<KEY_NAMES[k + 1], "m">> ELSE <<KEY_NAMES[k + 1]>>

C6_KeyEstimate ==
    \A p \in Procs :
        (Rich(p) /\ pc[p] = "brightness" /\ y[p].chroma.k = "vec") =>
            loc[p].key = KeyOf(y[p].chroma.h)

\* two maximal bins, G# and B; B is G#'s minor third and C, its major third, is lower
C6_Witness ==
    \E p \in Procs :
        /\ Rich(p)
        /\ pc[p] = "brightness"
        /\ y[p].chroma.h[9] = y[p].chroma.h[12]
        /\ y[p].chroma.h[1] < y[p].chroma.h[12]
        /\ loc[p].key = <<"G#", "m">>

\* C8, as claimed: on the same file, the bpm, energy, key and error of
\* main.analyze_audio_file are those of audio_processing.analyze_audio_file.
C8_StrictSubset ==
    \A p, q \in Procs :
        (Rich(p) /\ Minimal(q) /\ Returned(p) /\ Returned(q)
            /\ call[p].file = call[q].file) =>
            /\ result[q].bpm = result[p].bpm
            /\ result[q].energy = result[p].energy
            /\ result[q].key = result[p].key
            /\ result[q].error = result[p].error

\* C8, amended: on a missing or undecodable file both engines return the
\* same error and no metrics; when both succeed on the same waveform they
\* return the same bpm, the same energy unless the mean RMS is negative, and
\* the key of main.py is the key of audio_processing.py without its mode.
C8_SharedPart ==
    \A p, q \in Procs :
        (Rich(p) /\ Minimal(q) /\ Returned(p) /\ Returned(q)
            /\ call[p].file = call[q].file) =>
            LET f == call[p].file IN
            /\ (~f.exists \/ f.decode.k = "raise") =>
                /\ result[p].error # NoneS
                /\ result[q].error = result[p].error
                /\ MetricsAbsent(result[p])
                /\ CoreAbsent(result[q])
            /\ (pc[p] = "Done" /\ pc[q] = "Done" /\ f.wave30 = f.wave60) =>
                /\ result[q].error = result[p].error
                /\ result[q].bpm = result[p].bpm
                /\ ~lt(f.wave60.rms, ZERO) => result[q].energy = result[p].energy
                /\ result[q].key = S(<<result[p].key.s[1]>>)

C8_Witness ==
    \E p, q \in Procs :
        /\ Rich(p) /\ Minimal(q)
        /\ pc[p] = "Done" /\ pc[q] = "Done"
        /\ call[p].file = call[q].file
        /\ call[p].file.wave30 = call[p].file.wave60
        /\ result[p].key = S(<<"A", "m">>)
        /\ result[q].key = S(<<"A">>)
        /\ result[q].energy = result[p].energy

\* C9: when a waveform and the same waveform scaled by k > 1 without
\* clipping both analyze successfully, the energy reported for the scaled
\* one is not lower.
C9_EnergyMonotone ==
    \A p, q \in Procs : \A n \in ScaleNums :
        (Rich(p) /\ Rich(q) /\ pc[p] = "Done" /\ pc[q] = "Done"
            /\ NoClip(call[p].file, n)
            /\ call[q].file = Scale(call[p].file, n)) =>
            /\ result[p].energy.k = "num"
            /\ result[q].energy.k = "num"
            /\ result[q].energy.v >= result[p].energy.v

C9_Witness ==
    \E p, q \in Procs :
        /\ Rich(p) /\ Rich(q)
        /\ pc[p] = "Done" /\ pc[q] = "Done"
        /\ call[q].file = Scale(call[p].file, 3)
        /\ call[p].file.wave60.rms = F(7)
        /\ lt(result[p].energy, result[q].energy)

\* C10: two invocations of the same engine on the same file contents return
\* the same result, whatever was invoked before them and whatever runs
\* concurrently with them.
C10_NoSharedState ==
    \A p, q \in Procs :
        (Returned(p) /\ Returned(q) /\ call[p] = call[q]) => result[p] = result[q]

\* the first caller returned from its last invocation, made after others,
\* and the second caller ran the same invocation
C10_Witness ==
    /\ todo[1] = <<>>
    /\ Rich(1)
    /\ pc[1] = "Done"
    /\ pc[2] = "Done"
    /\ call[1] = call[2]

====
